---- MODULE Spec2Model ----
(***************************************************************************)
(* Marketing campaign performance analysis: the cleaning pipeline of       *)
(* src/src/data_cleaning.py, the KPI derivation of                         *)
(* src/src/feature_engineering.py and the ROI aggregation, tiering and     *)
(* result assembly of src/src/roi_calculation.py, as a state machine.      *)
(*                                                                         *)
(* Numbers.  Counters (spent, impressions, clicks, conversions) are        *)
(* non-negative integers.  Every derived ratio is a float of pandas/numpy; *)
(* it is modelled as an exact rational <<n, d>> in lowest terms with       *)
(* d > 0, or as one of the three IEEE special values a division by zero    *)
(* produces: NaN = <<0, 0>>, +inf = <<1, 0>>, -inf = <<-1, 0>>.  Rounding  *)
(* of the binary representation is not modelled.                           *)
(*                                                                         *)
(* Tables.  A DataFrame is a record [columns |-> set of column names,      *)
(* rows |-> sequence of records].  A missing key (NaN / NaT) is NA.        *)
(***************************************************************************)
EXTENDS Integers, Sequences, FiniteSets, TLC

VARIABLES
    script,     \* who drives the objects: run() of the ROI script ("roi"),
                \* the feature engineering script ("fe"), the cleaning
                \* script ("clean"), or a caller of the three dimension
                \* methods of one calculator in any order ("calls")
    pc,         \* position of that script's pipeline (run / run_full_pipeline)
    error,      \* the exception that aborted the pipeline, "" if none
    csv,        \* the file at data_path: [columns, rows]
    df,         \* self.df of the calculator, the engineer or the cleaner
    results,    \* MarketingROICalculator.results (name -> value)
    names,      \* insertion order of the keys of results (dict order)
    files       \* names of the CSV files written

vars == <<script, pc, error, csv, df, results, names, files>>

-----------------------------------------------------------------------------
(* Bounds of the model                                                     *)

MaxRecords == 2     \* rows of an input table

-----------------------------------------------------------------------------
(* Floats                                                                  *)

NaN == <<0, 0>>
PosInf == <<1, 0>>
NegInf == <<-1, 0>>

Abs(n) == IF n < 0 THEN -n ELSE n

Sign(n) == IF n > 0 THEN 1 ELSE IF n < 0 THEN -1 ELSE 0

RECURSIVE Gcd(_, _)
Gcd(a, b) == IF b = 0 THEN a ELSE Gcd(b, a % b)

\* the rational n/d (d # 0) in lowest terms with a positive denominator
Norm(n, d) ==
    LET g == Gcd(Abs(n), Abs(d))
        s == IF d < 0 THEN -1 ELSE 1
    IN  <<(s * n) \div g, (s * d) \div g>>

FromInt(n) == <<n, 1>>

IsNaN(q) == q = NaN

IsFinite(q) == q[2] # 0

\* float division a / b as numpy computes it: x/0 is +-inf, 0/0 is NaN,
\* NaN propagates; no exception is raised
FDiv(a, b) ==
    IF IsNaN(a) \/ IsNaN(b) THEN NaN
    ELSE IF IsFinite(a) /\ IsFinite(b)
         THEN IF b[1] = 0 THEN <<Sign(a[1]), 0>>
              ELSE Norm(a[1] * b[2], a[2] * b[1])
    ELSE IF IsFinite(a) THEN FromInt(0)                  \* x / +-inf
    ELSE IF IsFinite(b)
         THEN <<a[1] * (IF b[1] < 0 THEN -1 ELSE 1), 0>>  \* +-inf / x
    ELSE NaN                                              \* inf / inf

\* float product a * b
FMul(a, b) ==
    IF IsNaN(a) \/ IsNaN(b) THEN NaN
    ELSE IF IsFinite(a) /\ IsFinite(b) THEN Norm(a[1] * b[1], a[2] * b[2])
    ELSE <<Sign(a[1]) * Sign(b[1]), 0>>

\* float sum a + b
FAdd(a, b) ==
    IF IsNaN(a) \/ IsNaN(b) THEN NaN
    ELSE IF IsFinite(a) /\ IsFinite(b)
         THEN Norm(a[1] * b[2] + b[1] * a[2], a[2] * b[2])
    ELSE IF IsFinite(a) THEN b
    ELSE IF IsFinite(b) THEN a
    ELSE IF a = b THEN a ELSE NaN

\* the comparison a < k of a float with an integer literal; False on NaN
FLess(a, k) ==
    IF IsNaN(a) THEN FALSE
    ELSE IF IsFinite(a) THEN a[1] < k * a[2]
    ELSE a = NegInf

\* the quotient of two integer counters, as a float
DivInt(a, b) == FDiv(FromInt(a), FromInt(b))

\* numpy.where(cond, x, y) on one element
Where(cond, x, y) == IF cond THEN x ELSE y

-----------------------------------------------------------------------------
(* Keys and dates                                                          *)

NA == "<NA>"                    \* a missing value of a key column (NaN)
NaT == <<0, 0, 0>>              \* a missing date

\* the keys of the model in the order pandas' groupby(sort=True) gives them
KeyOrder == <<"2017-08", "2017-09", "30-34", "35-39", "916", "936",
              "C1", "F", "F_30-34", "F_35-39", "Friday", "M", "M_30-34", "M_35-39",
              "Monday", "Saturday", "Sunday", "Thursday", "Tuesday",
              "Wednesday">>

Rank(k) == CHOOSE i \in 1..Len(KeyOrder) : KeyOrder[i] = k

RECURSIVE SortKeys(_)
SortKeys(S) ==
    IF S = {} THEN << >>
    ELSE LET m == CHOOSE k \in S : \A o \in S : Rank(k) <= Rank(o)
         IN  <<m>> \o SortKeys(S \ {m})

DayNames == <<"Sunday", "Monday", "Tuesday", "Wednesday", "Thursday",
              "Friday", "Saturday">>

MonthOffsets == <<0, 3, 2, 5, 0, 3, 5, 1, 4, 6, 2, 4>>

\* Series.dt.day_name() on one date <<y, m, d>>
day_name(date) ==
    IF date = NaT THEN NA
    ELSE LET y == IF date[2] < 3 THEN date[1] - 1 ELSE date[1]
             w == (y + (y \div 4) - (y \div 100) + (y \div 400)
                     + MonthOffsets[date[2]] + date[3]) % 7
         IN  DayNames[w + 1]

\* Series.dt.to_period("M") on one date, as the period prints
to_period(date) ==
    IF date = NaT THEN NA
    ELSE ToString(date[1]) \o "-"
            \o (IF date[2] < 10 THEN "0" ELSE "") \o ToString(date[2])

-----------------------------------------------------------------------------
(* Tables                                                                  *)

RECURSIVE SumSeq(_)
SumSeq(s) == IF s = << >> THEN 0 ELSE Head(s) + SumSeq(Tail(s))

\* the values of one column, in row order
Column(rows, col) == [i \in 1..Len(rows) |-> rows[i][col]]

\* Series.sum() of an integer column
ColSum(rows, col) == SumSeq(Column(rows, col))

\* groupby that keeps only the groups with a positive spend
groupby_sum_spenders(rows, group_col) ==
    LET spends(k) == ColSum(SelectSeq(rows, LAMBDA r : r[group_col] = k),
                            "spent") > 0
        keys == SortKeys({k \in {rows[i][group_col] : i \in 1..Len(rows)}
                                  \ {NA} : spends(k)})
        part(k) == SelectSeq(rows, LAMBDA r : r[group_col] = k)
    IN  [j \in 1..Len(keys) |->
            [key |-> keys[j],
             spent |-> ColSum(part(keys[j]), "spent"),
             impressions |-> ColSum(part(keys[j]), "impressions"),
             clicks |-> ColSum(part(keys[j]), "clicks"),
             approved_conversion |->
                 ColSum(part(keys[j]), "approved_conversion")]]

\* groupby that aggregates with "first" instead of "sum": each group holds
\* the counters of its first record only
groupby_first(rows, group_col) ==
    LET keys == SortKeys({rows[i][group_col] : i \in 1..Len(rows)} \ {NA})
        first(k) == Head(SelectSeq(rows, LAMBDA r : r[group_col] = k))
    IN  [j \in 1..Len(keys) |->
            [key |-> keys[j],
             spent |-> first(keys[j]).spent,
             impressions |-> first(keys[j]).impressions,
             clicks |-> first(keys[j]).clicks,
             approved_conversion |-> first(keys[j]).approved_conversion]]

\* DataFrame.groupby(group_col, as_index=False).agg({... "sum"}): one row per
\* distinct non-missing key (dropna=True), keys ascending (sort=True); the
\* column named group_col is the field key of the row
groupby_sum(rows, group_col) ==
    LET keys == SortKeys({rows[i][group_col] : i \in 1..Len(rows)} \ {NA})
        part(k) == SelectSeq(rows, LAMBDA r : r[group_col] = k)
    IN  [j \in 1..Len(keys) |->
            [key |-> keys[j],
             spent |-> ColSum(part(keys[j]), "spent"),
             impressions |-> ColSum(part(keys[j]), "impressions"),
             clicks |-> ColSum(part(keys[j]), "clicks"),
             approved_conversion |->
                 ColSum(part(keys[j]), "approved_conversion")]]

-----------------------------------------------------------------------------
(* MarketingROICalculator                                                  *)

conversion_value == 100

CounterColumns == {"spent", "impressions", "clicks", "approved_conversion"}

DemographicColumns == <<"gender", "age_group", "demographic_segment">>

DateColumns == {"reporting_start", "reporting_end"}

\* the metrics dict of calculate_overall_roi
overall_metrics(rows) ==
    LET total_spend == ColSum(rows, "spent")
        total_impressions == ColSum(rows, "impressions")
        total_clicks == ColSum(rows, "clicks")
        total_conversions == ColSum(rows, "approved_conversion")
        total_revenue == total_conversions * conversion_value
    IN  [total_spend |-> total_spend,
         total_revenue |-> total_revenue,
         total_profit |-> total_revenue - total_spend,
         roi |-> IF total_spend > 0
                 THEN DivInt(total_revenue - total_spend, total_spend)
                 ELSE FromInt(0),
         roas |-> IF total_spend > 0
                  THEN DivInt(total_revenue, total_spend)
                  ELSE FromInt(0),
         cpa |-> IF total_conversions > 0
                 THEN DivInt(total_spend, total_conversions)
                 ELSE NaN,
         ctr |-> IF total_impressions > 0
                 THEN DivInt(total_clicks, total_impressions)
                 ELSE FromInt(0),
         conversion_rate |-> IF total_clicks > 0
                             THEN DivInt(total_conversions, total_clicks)
                             ELSE FromInt(0)]

\* calculate_campaign_roi with the zero-spend guard of calculate_overall_roi
campaign_row_guarded(g) ==
    LET revenue == g.approved_conversion * conversion_value
        profit == revenue - g.spent
    IN  [key |-> g.key,
         spent |-> g.spent,
         impressions |-> g.impressions,
         clicks |-> g.clicks,
         approved_conversion |-> g.approved_conversion,
         revenue |-> revenue,
         profit |-> profit,
         roi |-> Where(g.spent > 0, DivInt(profit, g.spent), FromInt(0)),
         roas |-> Where(g.spent > 0, DivInt(revenue, g.spent), FromInt(0)),
         cpa |-> Where(g.approved_conversion > 0,
                       DivInt(g.spent, g.approved_conversion), NaN),
         ctr |-> DivInt(g.clicks, g.impressions),
         conversion_rate |-> Where(g.clicks > 0,
                                   DivInt(g.approved_conversion, g.clicks),
                                   FromInt(0))]

\* calculate_campaign_roi with the spend left out of the profit
campaign_row_gross_profit(g) ==
    LET revenue == g.approved_conversion * conversion_value
        profit == revenue
    IN  [key |-> g.key,
         spent |-> g.spent,
         impressions |-> g.impressions,
         clicks |-> g.clicks,
         approved_conversion |-> g.approved_conversion,
         revenue |-> revenue,
         profit |-> profit,
         roi |-> DivInt(profit, g.spent),
         roas |-> DivInt(revenue, g.spent),
         cpa |-> Where(g.approved_conversion > 0,
                       DivInt(g.spent, g.approved_conversion), NaN),
         ctr |-> DivInt(g.clicks, g.impressions),
         conversion_rate |-> Where(g.clicks > 0,
                                   DivInt(g.approved_conversion, g.clicks),
                                   FromInt(0))]

\* one row of campaign_df after the column assignments of
\* calculate_campaign_roi
campaign_row(g) ==
    LET revenue == g.approved_conversion * conversion_value
        profit == revenue - g.spent
    IN  [key |-> g.key,
         spent |-> g.spent,
         impressions |-> g.impressions,
         clicks |-> g.clicks,
         approved_conversion |-> g.approved_conversion,
         revenue |-> revenue,
         profit |-> profit,
         roi |-> DivInt(profit, g.spent),
         roas |-> DivInt(revenue, g.spent),
         cpa |-> Where(g.approved_conversion > 0,
                       DivInt(g.spent, g.approved_conversion), NaN),
         ctr |-> DivInt(g.clicks, g.impressions),
         conversion_rate |-> Where(g.clicks > 0,
                                   DivInt(g.approved_conversion, g.clicks),
                                   FromInt(0))]

\* campaign_df of calculate_campaign_roi
campaign_roi(rows) ==
    LET grouped == groupby_sum(rows, "campaign_id")
    IN  [j \in 1..Len(grouped) |-> campaign_row(grouped[j])]

\* _group_roi with conversion_share divided by the spend total
group_row_conversions_by_spend(g, total_spent, total_conversion) ==
    LET revenue == g.approved_conversion * conversion_value
        profit == revenue - g.spent
        spend_share == DivInt(g.spent, total_spent)
        conversion_share == DivInt(g.approved_conversion, total_spent)
    IN  [key |-> g.key,
         spent |-> g.spent,
         impressions |-> g.impressions,
         clicks |-> g.clicks,
         approved_conversion |-> g.approved_conversion,
         revenue |-> revenue,
         profit |-> profit,
         roi |-> DivInt(profit, g.spent),
         roas |-> DivInt(revenue, g.spent),
         cpa |-> Where(g.approved_conversion > 0,
                       DivInt(g.spent, g.approved_conversion), NaN),
         spend_share |-> spend_share,
         conversion_share |-> conversion_share,
         efficiency_score |-> FDiv(conversion_share, spend_share)]

\* _group_roi with 0 in place of numpy.nan for an undefined cpa
group_row_cpa_zero(g, total_spent, total_conversion) ==
    LET revenue == g.approved_conversion * conversion_value
        profit == revenue - g.spent
        spend_share == DivInt(g.spent, total_spent)
        conversion_share == DivInt(g.approved_conversion, total_conversion)
    IN  [key |-> g.key,
         spent |-> g.spent,
         impressions |-> g.impressions,
         clicks |-> g.clicks,
         approved_conversion |-> g.approved_conversion,
         revenue |-> revenue,
         profit |-> profit,
         roi |-> DivInt(profit, g.spent),
         roas |-> DivInt(revenue, g.spent),
         cpa |-> Where(g.approved_conversion > 0,
                       DivInt(g.spent, g.approved_conversion), FromInt(0)),
         spend_share |-> spend_share,
         conversion_share |-> conversion_share,
         efficiency_score |-> FDiv(conversion_share, spend_share)]

\* one row of grouped after the column assignments of _group_roi; the two
\* totals are grouped["spent"].sum() and grouped["approved_conversion"].sum()
group_row(g, total_spent, total_conversion) ==
    LET revenue == g.approved_conversion * conversion_value
        profit == revenue - g.spent
        spend_share == DivInt(g.spent, total_spent)
        conversion_share == DivInt(g.approved_conversion, total_conversion)
    IN  [key |-> g.key,
         spent |-> g.spent,
         impressions |-> g.impressions,
         clicks |-> g.clicks,
         approved_conversion |-> g.approved_conversion,
         revenue |-> revenue,
         profit |-> profit,
         roi |-> DivInt(profit, g.spent),
         roas |-> DivInt(revenue, g.spent),
         cpa |-> Where(g.approved_conversion > 0,
                       DivInt(g.spent, g.approved_conversion), NaN),
         spend_share |-> spend_share,
         conversion_share |-> conversion_share,
         efficiency_score |-> FDiv(conversion_share, spend_share)]

\* _group_roi dividing by the totals of self.df in place of the totals of
\* grouped
group_roi_input_totals(rows, group_col) ==
    LET grouped == groupby_sum(rows, group_col)
    IN  [j \in 1..Len(grouped) |->
            group_row(grouped[j], ColSum(rows, "spent"),
                      ColSum(rows, "approved_conversion"))]

\* _group_roi(group_col)
group_roi(rows, group_col) ==
    LET grouped == groupby_sum(rows, group_col)
    IN  [j \in 1..Len(grouped) |->
            group_row(grouped[j], ColSum(grouped, "spent"),
                      ColSum(grouped, "approved_conversion"))]

\* tier with the comparisons <= in place of <
tier_closed_above(roas) ==
    IF FLess(roas, 1) \/ roas = FromInt(1) THEN "Loss Making"
    ELSE IF FLess(roas, 2) \/ roas = FromInt(2) THEN "Break Even"
    ELSE IF FLess(roas, 5) \/ roas = FromInt(5) THEN "Profitable"
    ELSE "Highly Profitable"

\* the nested function tier of assign_performance_tiers
tier(roas) ==
    IF FLess(roas, 1) THEN "Loss Making"
    ELSE IF FLess(roas, 2) THEN "Break Even"
    ELSE IF FLess(roas, 5) THEN "Profitable"
    ELSE "Highly Profitable"

\* self.results[name] = value: a dict assignment keeps the position of a key
\* that is already there
SetResult(name, value) ==
    /\ results' = [n \in DOMAIN results \cup {name} |->
                      IF n = name THEN value ELSE results[n]]
    /\ names' = IF name \in DOMAIN results THEN names ELSE Append(names, name)

\* an exception leaves run(): nothing after the raising statement happens
Raise(exc) ==
    /\ pc' = "failed"
    /\ error' = exc

\* DataFrame column assignment on one row: the fields of new are added to
\* the row, replacing the ones it already has
Assign(r, new) == new @@ r

None == [columns |-> {}, rows |-> << >>]

\* Who drives the calculator. run() (script "roi") calls the methods in its
\* fixed order: it stands at position `at` before the call. The three
\* dimension methods are public and need nothing but a loaded table, so a
\* caller other than run() (script "calls") may invoke them on one loaded
\* calculator in any order; here each is invoked once, which the entry it
\* leaves in results records.
AtCall(at, entry) ==
    IF script = "roi" THEN pc = at
    ELSE script = "calls" /\ pc = "loaded" /\ entry \notin DOMAIN results

\* the method returns: run() moves on to position `to`, the other caller
\* stays where any of the calls left can be made
Return(to) == pc' = IF script = "roi" THEN to ELSE pc

\* load_data: read_csv raises ValueError when a parse_dates column is missing
load_data ==
    /\ script \in {"roi", "calls"}
    /\ pc = "start"
    /\ IF DateColumns \subseteq csv.columns
       THEN /\ df' = csv
            /\ pc' = "loaded"
            /\ UNCHANGED error
       ELSE /\ Raise("ValueError")
            /\ UNCHANGED df
    /\ UNCHANGED <<script, csv, results, names, files>>

calculate_overall_roi ==
    /\ script = "roi"
    /\ pc = "loaded"
    /\ IF CounterColumns \subseteq df.columns
       THEN /\ SetResult("overall_metrics", overall_metrics(df.rows))
            /\ pc' = "overall"
            /\ UNCHANGED error
       ELSE /\ Raise("KeyError")
            /\ UNCHANGED <<results, names>>
    /\ UNCHANGED <<script, csv, df, files>>

calculate_campaign_roi ==
    /\ AtCall("overall", "campaign_metrics")
    /\ IF CounterColumns \cup {"campaign_id"} \subseteq df.columns
       THEN /\ SetResult("campaign_metrics", campaign_roi(df.rows))
            /\ Return("campaign")
            /\ UNCHANGED error
       ELSE /\ Raise("KeyError")
            /\ UNCHANGED <<results, names>>
    /\ UNCHANGED <<script, csv, df, files>>

\* a column that is absent is skipped by "if col in self.df.columns"
calculate_demographic_roi ==
    /\ AtCall("campaign", "demographic_metrics")
    /\ LET present == {DemographicColumns[i] : i \in 1..Len(DemographicColumns)}
                         \cap df.columns
       IN  IF present = {} \/ CounterColumns \subseteq df.columns
           THEN /\ SetResult("demographic_metrics",
                             [col \in present |-> group_roi(df.rows, col)])
                /\ Return("demographic")
                /\ UNCHANGED error
           ELSE /\ Raise("KeyError")
                /\ UNCHANGED <<results, names>>
    /\ UNCHANGED <<script, csv, df, files>>

\* the two column assignments on self.df happen before _group_roi is called
calculate_time_roi ==
    /\ AtCall("demographic", "time_metrics")
    /\ IF "reporting_start" \in df.columns
       THEN LET rows == [i \in 1..Len(df.rows) |->
                            Assign(df.rows[i],
                                [month |-> to_period(df.rows[i].reporting_start),
                                 day_of_week |->
                                     day_name(df.rows[i].reporting_start)])]
            IN  /\ df' = [columns |-> df.columns \cup {"month", "day_of_week"},
                          rows |-> rows]
                /\ IF CounterColumns \subseteq df.columns
                   THEN /\ SetResult("time_metrics",
                               [monthly |-> group_roi(rows, "month"),
                                day_of_week |-> group_roi(rows, "day_of_week")])
                        /\ Return("time")
                        /\ UNCHANGED error
                   ELSE /\ Raise("KeyError")
                        /\ UNCHANGED <<results, names>>
       ELSE /\ Raise("KeyError")
            /\ UNCHANGED <<df, results, names>>
    /\ UNCHANGED <<script, csv, files>>

assign_performance_tiers ==
    /\ script = "roi"
    /\ pc = "time"
    /\ IF "campaign_metrics" \in DOMAIN results
       THEN LET campaign_df == results["campaign_metrics"]
            IN  /\ SetResult("campaign_metrics",
                       [j \in 1..Len(campaign_df) |->
                           Assign(campaign_df[j],
                               [performance_tier |-> tier(campaign_df[j].roas)])])
                /\ pc' = "tiers"
                /\ UNCHANGED error
       ELSE /\ Raise("KeyError")
            /\ UNCHANGED <<results, names>>
    /\ UNCHANGED <<script, csv, df, files>>

\* what save_results does with the entries ns of self.results, in dict
\* order: a DataFrame is written to <name>.csv, every value of a dict is
\* written with to_csv; the values of the overall_metrics dict are numbers,
\* which have no to_csv, so the loop stops there with AttributeError
RECURSIVE Saved(_)
Saved(ns) ==
    IF ns = << >> THEN [files |-> {}, error |-> ""]
    ELSE IF Head(ns) = "campaign_metrics"
         THEN LET rest == Saved(Tail(ns))
              IN  [rest EXCEPT !.files = @ \cup {"campaign_metrics.csv"}]
    ELSE IF Head(ns) = "overall_metrics"
         THEN [files |-> {}, error |-> "AttributeError"]
    ELSE LET rest == Saved(Tail(ns))
         IN  [rest EXCEPT !.files = @ \cup
                 {Head(ns) \o "_" \o sub \o ".csv" :
                     sub \in DOMAIN results[Head(ns)]}]

save_results ==
    /\ script = "roi"
    /\ pc = "tiers"
    /\ files' = files \cup Saved(names).files
    /\ IF Saved(names).error = ""
       THEN pc' = "done" /\ UNCHANGED error
       ELSE Raise(Saved(names).error)
    /\ UNCHANGED <<script, csv, df, results, names>>

-----------------------------------------------------------------------------
(* MarketingFeatureEngineer                                                *)
(* run_full_pipeline is followed up to create_demographic_features; the    *)
(* per-campaign and per-segment means of create_aggregated_features and    *)
(* the file written by save_featured_data are not part of the state.       *)

KpiColumns == {"impressions", "clicks", "total_conversion",
               "approved_conversion", "spent"}

\* str + str on one element of two object columns: a missing operand gives
\* a missing result
StrAdd(a, b) == IF a = NA \/ b = NA THEN NA ELSE a \o b

DaysBeforeMonth == <<0, 31, 59, 90, 120, 151, 181, 212, 243, 273, 304, 334>>

IsLeap(y) == (y % 4 = 0 /\ y % 100 # 0) \/ y % 400 = 0

\* ISO weekday of a date, Monday = 1 .. Sunday = 7
IsoWeekday(date) ==
    LET i == CHOOSE j \in 1..7 : DayNames[j] = day_name(date)
    IN  IF i = 1 THEN 7 ELSE i - 1

WeeksInYear(y) ==
    LET jan1 == IsoWeekday(<<y, 1, 1>>)
    IN  IF jan1 = 4 \/ (jan1 = 3 /\ IsLeap(y)) THEN 53 ELSE 52

\* Series.dt.isocalendar().week on one date
iso_week(date) ==
    IF date = NaT THEN NA
    ELSE LET doy == DaysBeforeMonth[date[2]] + date[3]
                      + (IF date[2] > 2 /\ IsLeap(date[1]) THEN 1 ELSE 0)
             w == (doy - IsoWeekday(date) + 10) \div 7
         IN  IF w < 1 THEN WeeksInYear(date[1] - 1)
             ELSE IF w > WeeksInYear(date[1]) THEN 1
             ELSE w

\* the CTR column create_basic_derived_features of the cleaning script puts
\* into the cleaned file
basic_ctr(r) ==
    Where(r.impressions > 0, DivInt(r.clicks, r.impressions), FromInt(0))

\* create_kpi_features without the numpy.where guards on the rates
kpi_features_unguarded(r) ==
    [ctr |-> DivInt(r.clicks, r.impressions),
     conversion_rate |-> DivInt(r.total_conversion, r.clicks),
     approved_conversion_rate |->
         DivInt(r.approved_conversion, r.total_conversion),
     cost_per_acquisition |->
         Where(r.approved_conversion > 0,
               DivInt(r.spent, r.approved_conversion), NaN),
     cpm |-> FMul(DivInt(r.spent, r.impressions), FromInt(1000))]

\* the five columns create_kpi_features assigns, on one row
kpi_features(r) ==
    [ctr |-> Where(r.impressions > 0,
                   DivInt(r.clicks, r.impressions), FromInt(0)),
     conversion_rate |-> Where(r.clicks > 0,
                               DivInt(r.total_conversion, r.clicks),
                               FromInt(0)),
     approved_conversion_rate |->
         Where(r.total_conversion > 0,
               DivInt(r.approved_conversion, r.total_conversion),
               FromInt(0)),
     cost_per_acquisition |->
         Where(r.approved_conversion > 0,
               DivInt(r.spent, r.approved_conversion), NaN),
     cpm |-> Where(r.impressions > 0,
                   FMul(DivInt(r.spent, r.impressions), FromInt(1000)),
                   FromInt(0))]

\* load_cleaned_data: any exception of read_csv is caught, self.df stays
\* None and run_full_pipeline returns None
load_cleaned_data ==
    /\ script = "fe"
    /\ pc = "start"
    /\ IF DateColumns \subseteq csv.columns
       THEN df' = csv /\ pc' = "loaded"
       ELSE df' = df /\ pc' = "done"
    /\ UNCHANGED <<script, error, csv, results, names, files>>

create_time_features ==
    /\ script = "fe"
    /\ pc = "loaded"
    /\ IF "reporting_start" \notin df.columns
       THEN df' = df
       ELSE df' = [columns |-> df.columns \cup
                       {"campaign_year", "campaign_month",
                        "campaign_day_of_week", "campaign_week"},
                   rows |-> [i \in 1..Len(df.rows) |->
                       LET date == df.rows[i].reporting_start
                       IN  Assign(df.rows[i],
                             [campaign_year |->
                                  IF date = NaT THEN NA ELSE ToString(date[1]),
                              campaign_month |->
                                  IF date = NaT THEN NA ELSE ToString(date[2]),
                              campaign_day_of_week |-> day_name(date),
                              campaign_week |->
                                  IF date = NaT THEN NA
                                  ELSE ToString(iso_week(date))])]]
    /\ pc' = "time"
    /\ UNCHANGED <<script, error, csv, results, names, files>>

create_kpi_features ==
    /\ script = "fe"
    /\ pc = "time"
    /\ IF KpiColumns \subseteq df.columns
       THEN /\ df' = [columns |-> df.columns \cup
                          {"ctr", "conversion_rate", "approved_conversion_rate",
                           "cost_per_acquisition", "cpm"},
                      rows |-> [i \in 1..Len(df.rows) |->
                          Assign(df.rows[i], kpi_features(df.rows[i]))]]
            /\ pc' = "kpi"
            /\ UNCHANGED error
       ELSE /\ Raise("KeyError")
            /\ UNCHANGED df
    /\ UNCHANGED <<script, csv, results, names, files>>

create_demographic_features ==
    /\ script = "fe"
    /\ pc = "kpi"
    /\ LET has_age == "age" \in df.columns
           has_both == "gender" \in df.columns
                          /\ (has_age \/ "age_group" \in df.columns)
           age_group(r) == IF has_age THEN r.age ELSE r.age_group
       IN  df' = [columns |-> df.columns
                      \cup (IF has_age THEN {"age_group"} ELSE {})
                      \cup (IF has_both THEN {"demographic_segment"} ELSE {}),
                  rows |-> [i \in 1..Len(df.rows) |->
                      LET r == df.rows[i]
                      IN  Assign(r,
                            (IF has_age THEN [age_group |-> r.age]
                             ELSE [x \in {} |-> NA])
                            @@ (IF has_both
                                THEN [demographic_segment |->
                                        StrAdd(StrAdd(r.gender, "_"),
                                               age_group(r))]
                                ELSE [x \in {} |-> NA]))]]
    /\ pc' = "demographic"
    /\ UNCHANGED <<script, error, csv, results, names, files>>

-----------------------------------------------------------------------------
(* MarketingDataCleaner                                                    *)
(* The raw file exists and is read as text: a cell is a string, an empty   *)
(* cell is NA.  self.df carries, next to its rows, the index labels        *)
(* (0, 1, ...) read_csv gave them, which drop_duplicates keeps.            *)
(* check_data_quality only prints.                                         *)

NumericCols == {"impressions", "clicks", "spent", "total_conversion",
                "approved_conversion"}

CategoricalCols == {"age", "gender"}

\* the numerals of the raw files and the numbers they stand for
Numerals == ("0" :> 0) @@ ("1" :> 1) @@ ("2" :> 2) @@ ("20" :> 20)
            @@ ("50" :> 50) @@ ("1000" :> 1000) @@ ("-5" :> 0 - 5)

\* pd.to_numeric(errors="coerce").fillna(value) on one cell: what does not
\* parse becomes NaN and then value
to_numeric_fillna(cell, value) ==
    IF cell \in DOMAIN Numerals THEN Numerals[cell] ELSE value

\* Series.fillna(value) on one cell of an object column
fillna(cell, value) == IF cell = NA THEN value ELSE cell

\* the dates of the raw files as pd.to_datetime parses them
Dates == ("2017-08-14" :> <<2017, 8, 14>>) @@ ("2017-08-20" :> <<2017, 8, 20>>)

\* pd.to_datetime(errors="coerce") on one cell
to_datetime(cell) == IF cell \in DOMAIN Dates THEN Dates[cell] ELSE NaT

\* the day number of a date in the proleptic Gregorian calendar
Ordinal(date) ==
    LET y == date[1] - 1
    IN  365 * y + (y \div 4) - (y \div 100) + (y \div 400)
          + DaysBeforeMonth[date[2]]
          + (IF date[2] > 2 /\ IsLeap(date[1]) THEN 1 ELSE 0) + date[3]

\* (end - start).dt.days on one row: a float column, NaN where a date is NaT
duration_days(start, end) ==
    IF start = NaT \/ end = NaT THEN NaN
    ELSE FromInt(Ordinal(end) - Ordinal(start))

\* Series.str.upper() on one cell; a missing cell stays missing
str_upper(cell) ==
    CASE cell = "m" -> "M"
      [] cell = " f" -> " F"
      [] cell = "Unknown" -> "UNKNOWN"
      [] OTHER -> cell

\* Series.str.strip() on one cell; a missing cell stays missing
str_strip(cell) ==
    CASE cell = " F" -> "F"
      [] cell = " f" -> "f"
      [] cell = "35-39 " -> "35-39"
      [] OTHER -> cell

\* the gender column as clean_categorical_data rewrites it, on one cell
clean_gender(cell) == str_strip(str_upper(cell))

cleaner_load_data ==
    /\ script = "clean"
    /\ pc = "start"
    /\ df' = [columns |-> csv.columns, rows |-> csv.rows,
              index |-> [i \in 1..Len(csv.rows) |-> i - 1]]
    /\ pc' = "loaded"
    /\ UNCHANGED <<script, error, csv, results, names, files>>

clean_dates ==
    /\ script = "clean"
    /\ pc = "loaded"
    /\ LET parsed(r) ==
               [f \in DOMAIN r |->
                   IF f \in DateColumns \cap df.columns
                   THEN to_datetime(r[f]) ELSE r[f]]
           with_duration(r) ==
               Assign(r, [campaign_duration_days |->
                            duration_days(r.reporting_start, r.reporting_end)])
           dated(r) == IF DateColumns \subseteq df.columns
                       THEN with_duration(parsed(r)) ELSE parsed(r)
       IN  df' = [df EXCEPT
                     !.rows = [i \in 1..Len(df.rows) |-> dated(df.rows[i])],
                     !.columns = IF DateColumns \subseteq df.columns
                                 THEN @ \cup {"campaign_duration_days"}
                                 ELSE @]
    /\ pc' = "dates"
    /\ UNCHANGED <<script, error, csv, results, names, files>>

handle_missing_values ==
    /\ script = "clean"
    /\ pc = "dates"
    /\ LET filled(r) ==
               [f \in DOMAIN r |->
                   IF f \in NumericCols \cap df.columns
                   THEN to_numeric_fillna(r[f], 0)
                   ELSE IF f \in CategoricalCols \cap df.columns
                        THEN fillna(r[f], "Unknown")
                   ELSE r[f]]
       IN  df' = [df EXCEPT !.rows =
                     [i \in 1..Len(df.rows) |-> filled(df.rows[i])]]
    /\ pc' = "missing"
    /\ UNCHANGED <<script, error, csv, results, names, files>>

validate_numeric_columns ==
    /\ script = "clean"
    /\ pc = "missing"
    /\ LET valid(r) ==
               [f \in DOMAIN r |->
                   IF f \in NumericCols \cap df.columns /\ r[f] < 0
                   THEN 0 ELSE r[f]]
       IN  df' = [df EXCEPT !.rows =
                     [i \in 1..Len(df.rows) |-> valid(df.rows[i])]]
    /\ pc' = "validated"
    /\ UNCHANGED <<script, error, csv, results, names, files>>

\* drop_duplicates keeps the first of the rows that agree in every column,
\* with its index label
remove_duplicates ==
    /\ script = "clean"
    /\ pc = "validated"
    /\ LET shown(r) == [f \in df.columns \cap DOMAIN r |-> r[f]]
           kept == SelectSeq([i \in 1..Len(df.rows) |-> i],
                             LAMBDA i : \A j \in 1..(i - 1) :
                                 shown(df.rows[j]) # shown(df.rows[i]))
       IN  df' = [df EXCEPT
                     !.rows = [k \in 1..Len(kept) |-> df.rows[kept[k]]],
                     !.index = [k \in 1..Len(kept) |-> df.index[kept[k]]]]
    /\ pc' = "deduplicated"
    /\ UNCHANGED <<script, error, csv, results, names, files>>

clean_categorical_data ==
    /\ script = "clean"
    /\ pc = "deduplicated"
    /\ LET standard(r) ==
               [f \in DOMAIN r |->
                   IF f = "gender" /\ f \in df.columns THEN clean_gender(r[f])
                   ELSE IF f = "age" /\ f \in df.columns THEN str_strip(r[f])
                   ELSE r[f]]
       IN  df' = [df EXCEPT !.rows =
                     [i \in 1..Len(df.rows) |-> standard(df.rows[i])]]
    /\ pc' = "categorical"
    /\ UNCHANGED <<script, error, csv, results, names, files>>

create_basic_derived_features ==
    /\ script = "clean"
    /\ pc = "categorical"
    /\ IF {"clicks", "impressions"} \subseteq df.columns
       THEN LET derived(r) == Assign(r, [ctr |-> basic_ctr(r)])
            IN  df' = [df EXCEPT
                          !.rows = [i \in 1..Len(df.rows) |->
                                       derived(df.rows[i])],
                          !.columns = @ \cup {"ctr"}]
       ELSE df' = df
    /\ pc' = "derived"
    /\ UNCHANGED <<script, error, csv, results, names, files>>

save_cleaned_data ==
    /\ script = "clean"
    /\ pc = "derived"
    /\ files' = files \cup {"cleaned_marketing_data.csv"}
    /\ pc' = "done"
    /\ UNCHANGED <<script, error, csv, df, results, names>>

-----------------------------------------------------------------------------
(* Input files                                                             *)

\* all tables of at most n rows drawn from R
Tables(R, n) == UNION {[1..m -> R] : m \in 0..n}

\* featured file read by the ROI script ------------------------------------

RoiColumns == {"campaign_id", "gender", "age_group", "demographic_segment",
               "reporting_start", "reporting_end",
               "spent", "impressions", "clicks", "approved_conversion"}

\* the grouping attributes of a row; the third has no campaign id and an
\* unparseable date
RoiKeys ==
    {[campaign_id |-> "916", gender |-> "M", age_group |-> "30-34",
      reporting_start |-> <<2017, 8, 14>>],
     [campaign_id |-> "936", gender |-> "F", age_group |-> "35-39",
      reporting_start |-> <<2017, 9, 12>>],
     [campaign_id |-> NA, gender |-> "F", age_group |-> "30-34",
      reporting_start |-> NaT]}

SpentValues == {0, 20, 50, 100}

Traffic == {[impressions |-> 0, clicks |-> 0],
            [impressions |-> 1000, clicks |-> 50]}

RoiRecords ==
    {k @@ t @@ [demographic_segment |->
                    StrAdd(StrAdd(k.gender, "_"), k.age_group),
                spent |-> s, approved_conversion |-> a] :
        k \in RoiKeys, t \in Traffic, s \in SpentValues, a \in {0, 1}}

\* one record per day of the week of 14..20 August 2017, the week starting
\* at any of its days
WeekRows(first, spend) ==
    [i \in 1..7 |->
        [campaign_id |-> "916", gender |-> "M", age_group |-> "30-34",
         demographic_segment |-> "M_30-34",
         reporting_start |-> <<2017, 8, 14 + ((first + i) % 7)>>,
         impressions |-> 1000, clicks |-> 50,
         spent |-> spend[i], approved_conversion |-> 1]]

WeekTables == {WeekRows(first, spend) : first \in 0..6,
                                        spend \in [1..7 -> {0, 50}]}

\* two records of one campaign "C1", the second with spend but no traffic
\* and no conversion
TwoRecordCampaign ==
    [i \in 1..2 |->
        [campaign_id |-> "C1", gender |-> "M", age_group |-> "30-34",
         demographic_segment |-> "M_30-34",
         reporting_start |-> <<2017, 8, 14>>,
         impressions |-> <<1000, 0>>[i], clicks |-> <<50, 0>>[i],
         spent |-> <<10, 5>>[i], approved_conversion |-> <<2, 0>>[i]]]

RoiFiles ==
    {[columns |-> RoiColumns, rows |-> t] :
        t \in Tables(RoiRecords, MaxRecords) \cup WeekTables
                 \cup {TwoRecordCampaign}}
    \cup {[columns |-> RoiColumns \ {c}, rows |-> t] :
            c \in RoiColumns \ {"reporting_end"},
            t \in [1..1 -> RoiRecords]}

\* cleaned file read by the feature engineering script -----------------------

FeColumns == {"campaign_id", "age", "gender", "reporting_start",
              "reporting_end", "impressions", "clicks", "spent",
              "total_conversion", "approved_conversion", "ctr"}

FeCounters ==
    [impressions : {0, 1000}, clicks : {0, 50}, total_conversion : {0, 2},
     approved_conversion : {0, 1}, spent : {0, 50}]

FeKeys ==
    {[campaign_id |-> "916", gender |-> "M", age |-> "30-34",
      reporting_start |-> <<2017, 8, 14>>],
     [campaign_id |-> "936", gender |-> "F", age |-> "35-39",
      reporting_start |-> <<2018, 12, 31>>],
     [campaign_id |-> NA, gender |-> "F", age |-> "30-34",
      reporting_start |-> NaT]}

FeRecords ==
    {LET r == k @@ c IN r @@ [ctr |-> basic_ctr(r)] :
        k \in {x \in FeKeys : x.campaign_id = "916"}, c \in FeCounters}
    \cup
    {LET r == k @@ c IN r @@ [ctr |-> basic_ctr(r)] :
        k \in FeKeys,
        c \in {x \in FeCounters : x.impressions = 1000 /\ x.clicks = 50
                                    /\ x.total_conversion = 2 /\ x.spent = 50}}

FeFiles ==
    {[columns |-> FeColumns, rows |-> t] : t \in Tables(FeRecords, MaxRecords)}
    \cup {[columns |-> FeColumns \ {c}, rows |-> t] :
            c \in {"age", "gender", "reporting_start", "clicks"},
            t \in [1..1 -> FeRecords]}

\* raw file read by the cleaning script --------------------------------------

RawColumns == {"campaign_id", "age", "gender", "reporting_start",
               "reporting_end", "impressions", "clicks", "spent",
               "total_conversion", "approved_conversion"}

\* a gender or age cell is clean, padded or lower-case, or empty; spent may
\* be negative or empty; the start date may be no date
RawRecords ==
    [campaign_id : {"916"}, gender : {"M", " f", NA},
     age : {"30-34", "35-39 ", NA},
     reporting_start : {"2017-08-14", "soon"}, reporting_end : {"2017-08-20"},
     impressions : {"1000", "0"}, clicks : {"50"},
     spent : {"20", "-5", NA},
     total_conversion : {"2"}, approved_conversion : {"1"}]

RawFiles ==
    {[columns |-> RawColumns, rows |-> t] :
        t \in Tables(RawRecords, MaxRecords)}
    \cup {[columns |-> RawColumns \ {c}, rows |-> t] :
            c \in {"gender", "age", "spent", "impressions", "reporting_end"},
            t \in [1..1 -> RawRecords]}

-----------------------------------------------------------------------------
(* The repository's scripts                                                *)

Init ==
    /\ script \in {"roi", "fe"}
    /\ csv \in IF script = "roi" THEN RoiFiles ELSE FeFiles
    /\ pc = "start"
    /\ error = ""
    /\ df = None
    /\ results = [n \in {} |-> None]
    /\ names = << >>
    /\ files = {}

Next ==
    \/ load_data
    \/ calculate_overall_roi
    \/ calculate_campaign_roi
    \/ calculate_demographic_roi
    \/ calculate_time_roi
    \/ assign_performance_tiers
    \/ save_results
    \/ load_cleaned_data
    \/ create_time_features
    \/ create_kpi_features
    \/ create_demographic_features

Spec == Init /\ [][Next]_vars

\* One calculator, loaded once, on which the three dimension methods are
\* called in any order.
InitAnyOrder ==
    /\ script = "calls"
    /\ csv \in RoiFiles
    /\ pc = "start"
    /\ error = ""
    /\ df = None
    /\ results = [n \in {} |-> None]
    /\ names = << >>
    /\ files = {}

NextAnyOrder ==
    \/ load_data
    \/ calculate_campaign_roi
    \/ calculate_demographic_roi
    \/ calculate_time_roi

SpecAnyOrder == InitAnyOrder /\ [][NextAnyOrder]_vars

\* MarketingDataCleaner.run_full_pipeline on a raw file
InitClean ==
    /\ script = "clean"
    /\ csv \in RawFiles
    /\ pc = "start"
    /\ error = ""
    /\ df = None
    /\ results = [n \in {} |-> None]
    /\ names = << >>
    /\ files = {}

NextClean ==
    \/ cleaner_load_data
    \/ clean_dates
    \/ handle_missing_values
    \/ validate_numeric_columns
    \/ remove_duplicates
    \/ clean_categorical_data
    \/ create_basic_derived_features
    \/ save_cleaned_data

SpecClean == InitClean /\ [][NextClean]_vars

-----------------------------------------------------------------------------
(* Properties: vocabulary                                                  *)

RoiAt(stages) == script = "roi" /\ pc \in stages

\* run() has assigned the tiers (save_results, the step after, never
\* succeeds: see Saved)
TiersAssigned ==
    \/ RoiAt({"tiers", "done"})
    \/ RoiAt({"failed"}) /\ error = "AttributeError"

CampaignComputed ==
    RoiAt({"campaign", "demographic", "time"}) \/ TiersAssigned

NumericTiers == {"Loss Making", "Break Even", "Profitable", "Highly Profitable"}

\* the float q is the exact quotient a / b of two integers, b # 0
IsQuotient(q, a, b) == IsFinite(q) /\ q[2] > 0 /\ q[1] * b = a * q[2]

Zero == <<0, 1>>

-----------------------------------------------------------------------------
(* C1: after assign_performance_tiers every campaign row carries exactly   *)
(* one of the four tiers, and for a row whose ROAS n/d is positive the     *)
(* tier is Loss Making iff n/d < 1, Break Even iff 1 <= n/d < 2,           *)
(* Profitable iff 2 <= n/d < 5 and Highly Profitable iff n/d >= 5 (an      *)
(* infinite ROAS included), so each interval is closed at its lower end.   *)

C1_TierOf(roas) ==
    IF ~IsFinite(roas) THEN "Highly Profitable"
    ELSE IF roas[1] < roas[2] THEN "Loss Making"
    ELSE IF roas[1] < 2 * roas[2] THEN "Break Even"
    ELSE IF roas[1] < 5 * roas[2] THEN "Profitable"
    ELSE "Highly Profitable"

C1_TierTotalClosedBelow ==
    TiersAssigned =>
        \A j \in 1..Len(results["campaign_metrics"]) :
            LET r == results["campaign_metrics"][j]
            IN  /\ "performance_tier" \in DOMAIN r
                /\ r.performance_tier \in NumericTiers
                /\ (r.roas = PosInf \/ (IsFinite(r.roas) /\ r.roas[1] > 0))
                      => r.performance_tier = C1_TierOf(r.roas)

\* two campaigns sit exactly on the boundaries 1 and 5
C1_Witness ==
    /\ TiersAssigned
    /\ \E i, j \in 1..Len(results["campaign_metrics"]) :
          /\ results["campaign_metrics"][i].roas = <<1, 1>>
          /\ results["campaign_metrics"][i].performance_tier = "Break Even"
          /\ results["campaign_metrics"][j].roas = <<5, 1>>
          /\ results["campaign_metrics"][j].performance_tier
                = "Highly Profitable"

-----------------------------------------------------------------------------
(* C2: every campaign whose summed spent is 0 gets an outcome that is none *)
(* of the four numeric tiers.                                              *)

C2_ZeroSpendGetsNoNumericTier ==
    TiersAssigned =>
        \A j \in 1..Len(results["campaign_metrics"]) :
            LET r == results["campaign_metrics"][j]
            IN  r.spent = 0 => r.performance_tier \notin NumericTiers

-----------------------------------------------------------------------------
(* C3: after create_kpi_features each of ctr, conversion_rate,             *)
(* approved_conversion_rate and cpm of every record is the number 0 when   *)
(* its denominator is 0 and the exact quotient otherwise, no exception is  *)
(* raised whatever the counters are, and the ctr column of the cleaned     *)
(* file follows the same rule.                                             *)

KpiComputed == script = "fe" /\ pc \in {"kpi", "demographic"}

C3_RatiosZeroOnZeroDenominator ==
    /\ KpiComputed =>
          \A i \in 1..Len(df.rows) :
              LET r == df.rows[i]
              IN  /\ IF r.impressions = 0 THEN r.ctr = Zero
                     ELSE IsQuotient(r.ctr, r.clicks, r.impressions)
                  /\ IF r.clicks = 0 THEN r.conversion_rate = Zero
                     ELSE IsQuotient(r.conversion_rate,
                                     r.total_conversion, r.clicks)
                  /\ IF r.total_conversion = 0
                     THEN r.approved_conversion_rate = Zero
                     ELSE IsQuotient(r.approved_conversion_rate,
                                     r.approved_conversion, r.total_conversion)
                  /\ IF r.impressions = 0 THEN r.cpm = Zero
                     ELSE IsQuotient(r.cpm, 1000 * r.spent, r.impressions)
    /\ (script = "fe" /\ KpiColumns \subseteq csv.columns) => error = ""
    /\ (script = "fe" /\ pc = "time" /\ KpiColumns \subseteq df.columns)
          => ENABLED create_kpi_features
    /\ (script = "fe" /\ "ctr" \in csv.columns) =>
          \A i \in 1..Len(csv.rows) :
              LET r == csv.rows[i]
              IN  IF r.impressions = 0 THEN r.ctr = Zero
                  ELSE IsQuotient(r.ctr, r.clicks, r.impressions)

\* a record with clicks but no impressions next to one with a proper CTR
C3_Witness ==
    /\ KpiComputed
    /\ \E i, j \in 1..Len(df.rows) :
          /\ df.rows[i].impressions = 0 /\ df.rows[i].clicks > 0
          /\ df.rows[i].ctr = Zero /\ df.rows[i].cpm = Zero
          /\ df.rows[i].total_conversion = 0
          /\ df.rows[i].approved_conversion_rate = Zero
          /\ df.rows[j].clicks = 0 /\ df.rows[j].conversion_rate = Zero
          /\ df.rows[j].impressions > 0 /\ df.rows[j].spent > 0
          /\ df.rows[j].cpm = <<50, 1>>

-----------------------------------------------------------------------------
(* C4: in every aggregate table (campaign-level, each demographic          *)
(* dimension, monthly, day-of-week) a row with summed approved_conversion  *)
(* 0 has cpa NaN and a row with approved_conversion > 0 has cpa = spent /  *)
(* approved_conversion; the cpa of overall_metrics follows the same rule   *)
(* on the totals, and so does cost_per_acquisition of every record; no     *)
(* exception is raised on the way.                                         *)

\* the tables _group_roi has put into results, as a set of
\* [col |-> grouping column, table |-> rows]
GroupTables ==
    (IF "demographic_metrics" \in DOMAIN results
     THEN {[col |-> c, table |-> results["demographic_metrics"][c]] :
              c \in DOMAIN results["demographic_metrics"]}
     ELSE {})
    \cup
    (IF "time_metrics" \in DOMAIN results
     THEN {[col |-> "month", table |-> results["time_metrics"].monthly],
           [col |-> "day_of_week",
            table |-> results["time_metrics"].day_of_week]}
     ELSE {})

\* all aggregate tables of results, the campaign-level one included
AggregateTables ==
    GroupTables \cup
    (IF "campaign_metrics" \in DOMAIN results
     THEN {[col |-> "campaign_id", table |-> results["campaign_metrics"]]}
     ELSE {})

CpaRule(cpa, spent, approved_conversion) ==
    IF approved_conversion = 0 THEN cpa = NaN
    ELSE IsQuotient(cpa, spent, approved_conversion)

C4_CpaUndefinedOnZeroConversions ==
    /\ script = "roi" =>
          /\ \A t \in AggregateTables :
                \A j \in 1..Len(t.table) :
                    CpaRule(t.table[j].cpa, t.table[j].spent,
                            t.table[j].approved_conversion)
          /\ "overall_metrics" \in DOMAIN results =>
                CpaRule(results["overall_metrics"].cpa,
                        ColSum(df.rows, "spent"),
                        ColSum(df.rows, "approved_conversion"))
          /\ RoiColumns \subseteq csv.columns =>
                error \in {"", "AttributeError"}
    /\ KpiComputed =>
          \A i \in 1..Len(df.rows) :
              CpaRule(df.rows[i].cost_per_acquisition, df.rows[i].spent,
                      df.rows[i].approved_conversion)
    /\ (script = "fe" /\ KpiColumns \subseteq csv.columns) => error = ""

\* a run whose gender table has a group without conversions next to one
\* with conversions, and whose campaign table has one too
C4_Witness ==
    /\ TiersAssigned
    /\ RoiColumns \subseteq csv.columns
    /\ \E i, j \in 1..Len(results["demographic_metrics"]["gender"]) :
          LET t == results["demographic_metrics"]["gender"]
          IN  /\ t[i].approved_conversion = 0 /\ t[i].spent > 0
              /\ t[i].cpa = NaN
              /\ t[j].approved_conversion > 0 /\ t[j].cpa = <<50, 1>>
    /\ \E j \in 1..Len(results["campaign_metrics"]) :
          results["campaign_metrics"][j].cpa = NaN
    /\ \E j \in 1..Len(results["time_metrics"].day_of_week) :
          results["time_metrics"].day_of_week[j].cpa = NaN

-----------------------------------------------------------------------------
(* Shares                                                                  *)

RECURSIVE FSum(_)
FSum(s) == IF s = << >> THEN Zero ELSE FAdd(Head(s), FSum(Tail(s)))

One == <<1, 1>>

\* the rows of self.df that groupby(col) does not drop
KeyedRows(col) == SelectSeq(df.rows, LAMBDA r : r[col] # NA)

DisplayOrder == <<"Monday", "Tuesday", "Wednesday", "Thursday", "Friday",
                  "Saturday", "Sunday">>

WeekDays == {DisplayOrder[i] : i \in 1..7}

\* self.df holds seven records on seven different weekdays
IsWeek ==
    /\ Len(df.rows) = 7
    /\ {day_name(df.rows[i].reporting_start) : i \in 1..7} = WeekDays

\* a column of the day-of-week table, its rows taken Monday to Sunday
InDisplayOrder(table, col) ==
    [i \in 1..7 |->
        LET j == CHOOSE k \in 1..Len(table) : table[k].key = DisplayOrder[i]
        IN  table[j][col]]

\* share is part / total as _group_roi computes it
ShareRule(share, part, total) ==
    IF total = 0 THEN share = NaN ELSE IsQuotient(share, part, total)

-----------------------------------------------------------------------------
(* C5 as stated: in every table of _group_roi, over any input whose total  *)
(* spent is nonzero, the spend_share values of all rows sum to exactly 1.  *)

C5_SharesSumToOneOnAnyInput ==
    script = "roi" =>
        \A t \in GroupTables :
            ColSum(df.rows, "spent") # 0
                => FSum(Column(t.table, "spend_share")) = One

(* C5 as amended: in every table of _group_roi each row's spend_share is   *)
(* its spent divided by the sum of spent over the rows of that table, and  *)
(* the spend_share values sum to exactly 1 whenever the records whose      *)
(* grouping key is not missing have a nonzero total spent; for seven       *)
(* records on seven different weekdays the day_of_week table has seven     *)
(* rows with seven distinct keys, and the shares sum to 1 in table order   *)
(* and in the Monday-to-Sunday order.                                      *)

C5_SpendSharesSumToOne ==
    script = "roi" =>
        /\ \A t \in GroupTables :
              /\ \A j \in 1..Len(t.table) :
                    ShareRule(t.table[j].spend_share, t.table[j].spent,
                              ColSum(t.table, "spent"))
              /\ ColSum(KeyedRows(t.col), "spent") # 0
                    => FSum(Column(t.table, "spend_share")) = One
        /\ (IsWeek /\ "time_metrics" \in DOMAIN results) =>
              LET t == results["time_metrics"].day_of_week
              IN  /\ Len(t) = 7
                  /\ {t[j].key : j \in 1..7} = WeekDays
                  /\ ColSum(df.rows, "spent") # 0 =>
                        /\ FSum(Column(t, "spend_share")) = One
                        /\ FSum(InDisplayOrder(t, "spend_share")) = One

\* a week of seven single-record days, some of them without spend
C5_Witness ==
    /\ RoiAt({"time"})
    /\ IsWeek
    /\ df.rows[1].reporting_start # <<2017, 8, 14>>
    /\ ColSum(df.rows, "spent") = 150
    /\ Len(results["time_metrics"].day_of_week) = 7
    /\ FSum(Column(results["time_metrics"].day_of_week, "spend_share")) = One

-----------------------------------------------------------------------------
(* C6 as stated: in every table of _group_roi, over any input whose total  *)
(* approved_conversion is nonzero, the conversion_share values of all rows *)
(* sum to exactly 1.                                                       *)

C6_SharesSumToOneOnAnyInput ==
    script = "roi" =>
        \A t \in GroupTables :
            ColSum(df.rows, "approved_conversion") # 0
                => FSum(Column(t.table, "conversion_share")) = One

(* C6 as amended: in every table of _group_roi each row's conversion_share *)
(* is its approved_conversion divided by the sum of approved_conversion    *)
(* over the rows of that table, and the conversion_share values sum to     *)
(* exactly 1 whenever the records whose grouping key is not missing have a *)
(* nonzero total approved_conversion.                                      *)

C6_ConversionSharesSumToOne ==
    script = "roi" =>
        \A t \in GroupTables :
            /\ \A j \in 1..Len(t.table) :
                  ShareRule(t.table[j].conversion_share,
                            t.table[j].approved_conversion,
                            ColSum(t.table, "approved_conversion"))
            /\ ColSum(KeyedRows(t.col), "approved_conversion") # 0
                  => FSum(Column(t.table, "conversion_share")) = One

\* two gender groups with conversions, and a record without a date whose
\* conversion the monthly table does not count
C6_Witness ==
    /\ RoiAt({"time"})
    /\ RoiColumns \subseteq csv.columns
    /\ Len(results["demographic_metrics"]["gender"]) = 2
    /\ \A j \in 1..2 :
          results["demographic_metrics"]["gender"][j].conversion_share
              = <<1, 2>>
    /\ Len(results["time_metrics"].monthly) = 1
    /\ results["time_metrics"].monthly[1].conversion_share = One
    /\ ColSum(df.rows, "spent") > 0

-----------------------------------------------------------------------------
(* Exhaustive grouping                                                     *)

\* the distinct key values present in column col of self.df
KeysPresent(col) == {df.rows[i][col] : i \in 1..Len(df.rows)} \ {NA}

\* the table has exactly one row per key of KeysPresent(col), no other row
OneRowPerKey(t) ==
    /\ {t.table[j].key : j \in 1..Len(t.table)} = KeysPresent(t.col)
    /\ Len(t.table) = Cardinality(KeysPresent(t.col))

\* a float that is no number: NaN or an infinity
Undefined(q) == ~IsFinite(q)

-----------------------------------------------------------------------------
(* C7 as stated: every aggregate table, the campaign-level one included,   *)
(* has exactly one row per distinct key value of the input and no other    *)
(* row, and a row whose spent sums to 0 carries roi, roas and              *)
(* efficiency_score, all three undefined (read here as: NaN or infinite).  *)

-----------------------------------------------------------------------------
(* C8 as stated: for an input of one record with spent = 0 and             *)
(* approved_conversion = 0 (and a campaign id), the campaign-level table   *)
(* contains the campaign's row, whose roi, roas and efficiency_score hold  *)
(* NaN, and calculate_campaign_roi raises no error.                        *)

OneDeadRecord ==
    /\ script = "roi"
    /\ Len(csv.rows) = 1
    /\ csv.rows[1].spent = 0
    /\ csv.rows[1].approved_conversion = 0
    /\ csv.rows[1].campaign_id # NA

-----------------------------------------------------------------------------
(* C9: the overall_metrics record equals what _group_roi gives for one     *)
(* group holding all records: the same sums and the same roi, roas and cpa,*)
(* degenerate denominators included.                                       *)

C9_OverallIsOneGroup ==
    (script = "roi" /\ "overall_metrics" \in DOMAIN results) =>
        LET all == [key |-> "all",
                    spent |-> ColSum(df.rows, "spent"),
                    impressions |-> ColSum(df.rows, "impressions"),
                    clicks |-> ColSum(df.rows, "clicks"),
                    approved_conversion |->
                        ColSum(df.rows, "approved_conversion")]
            g == group_row(all, all.spent, all.approved_conversion)
            o == results["overall_metrics"]
        IN  /\ o.total_spend = g.spent
            /\ o.total_revenue = g.revenue
            /\ o.total_profit = g.profit
            /\ o.roi = g.roi
            /\ o.roas = g.roas
            /\ o.cpa = g.cpa

-----------------------------------------------------------------------------
(* C10: when a required field is absent from the input table, run() aborts *)
(* before any aggregate is in results, and never runs on to produce one.   *)

RequiredFields == {"spent", "impressions", "clicks", "approved_conversion",
                   "campaign_id", "gender", "age_group",
                   "demographic_segment", "reporting_start"}

C10_AbsentFieldLeavesNoAggregate ==
    (script = "roi" /\ ~(RequiredFields \subseteq csv.columns)) =>
        /\ DOMAIN results = {}
        /\ pc # "done"

-----------------------------------------------------------------------------
(* Independent dimension calls                                             *)

\* the rows of the loaded file with the two columns calculate_time_roi
\* derives from reporting_start
WithTimeColumns(rows) ==
    [i \in 1..Len(rows) |->
        Assign(rows[i], [month |-> to_period(rows[i].reporting_start),
                         day_of_week |-> day_name(rows[i].reporting_start)])]

\* what a method leaves under its entry of results when it is the only one
\* called on the freshly loaded file
RunAlone(entry) ==
    IF entry = "campaign_metrics" THEN campaign_roi(csv.rows)
    ELSE IF entry = "demographic_metrics"
         THEN [col \in {DemographicColumns[i] :
                           i \in 1..Len(DemographicColumns)} \cap csv.columns
                  |-> group_roi(csv.rows, col)]
    ELSE [monthly |-> group_roi(WithTimeColumns(csv.rows), "month"),
          day_of_week |-> group_roi(WithTimeColumns(csv.rows), "day_of_week")]

(* C11: in whatever order calculate_campaign_roi,                          *)
(* calculate_demographic_roi and calculate_time_roi are called on one      *)
(* loaded calculator, every call leaves the shared input table self.df as  *)
(* it was, adds at most its own entry to results and changes no entry      *)
(* already there, and every entry holds the table the method produces when *)
(* it is run alone.                                                        *)

C11_AggregationsIndependent ==
    [][(script = "calls" /\ pc = "loaded") =>
          /\ df' = df
          /\ Cardinality(DOMAIN results' \ DOMAIN results) <= 1
          /\ \A n \in DOMAIN results : results'[n] = results[n]
          /\ \A n \in DOMAIN results' : results'[n] = RunAlone(n)]_vars

-----------------------------------------------------------------------------
(* Campaign-level row                                                      *)

\* the records of self.df that belong to campaign k
CampaignRecords(k) == SelectSeq(df.rows, LAMBDA r : r.campaign_id = k)

(* C12: once the tiers are assigned, every campaign of the input has one   *)
(* row in campaign_metrics whose spent, impressions, clicks and            *)
(* approved_conversion are the sums over that campaign's records, whose    *)
(* revenue is approved_conversion * conversion_value and whose profit is   *)
(* revenue - spent; roi = profit / spent and roas = revenue / spent where  *)
(* spent is not 0, cpa = spent / approved_conversion where                 *)
(* approved_conversion is not 0, ctr = summed clicks / summed impressions  *)
(* where impressions is not 0, and the tier is the one of that roas. The   *)
(* two records of campaign C1 give spent 15, approved_conversion 2,        *)
(* revenue 200, profit 185, roi 185/15, roas 200/15, tier Highly           *)
(* Profitable, cpa 15/2 and ctr 50/1000.                                   *)

C12_CampaignRowFormulas ==
    /\ TiersAssigned =>
          \A k \in KeysPresent("campaign_id") :
              \E j \in 1..Len(results["campaign_metrics"]) :
                  LET r == results["campaign_metrics"][j]
                      recs == CampaignRecords(k)
                  IN  /\ r.key = k
                      /\ \A i \in 1..Len(results["campaign_metrics"]) :
                            results["campaign_metrics"][i].key = k => i = j
                      /\ r.spent = ColSum(recs, "spent")
                      /\ r.impressions = ColSum(recs, "impressions")
                      /\ r.clicks = ColSum(recs, "clicks")
                      /\ r.approved_conversion
                            = ColSum(recs, "approved_conversion")
                      /\ r.revenue = r.approved_conversion * conversion_value
                      /\ r.profit = r.revenue - r.spent
                      /\ r.spent # 0 =>
                            /\ IsQuotient(r.roi, r.profit, r.spent)
                            /\ IsQuotient(r.roas, r.revenue, r.spent)
                            /\ r.performance_tier = C1_TierOf(r.roas)
                      /\ r.approved_conversion # 0 =>
                            IsQuotient(r.cpa, r.spent, r.approved_conversion)
                      /\ r.impressions # 0 =>
                            IsQuotient(r.ctr, r.clicks, r.impressions)
    /\ (TiersAssigned /\ csv.rows = TwoRecordCampaign) =>
          /\ Len(results["campaign_metrics"]) = 1
          /\ LET r == results["campaign_metrics"][1]
             IN  /\ r.key = "C1"
                 /\ r.spent = 15 /\ r.approved_conversion = 2
                 /\ r.revenue = 200 /\ r.profit = 185
                 /\ IsQuotient(r.roi, 185, 15)
                 /\ IsQuotient(r.roas, 200, 15)
                 /\ r.performance_tier = "Highly Profitable"
                 /\ IsQuotient(r.cpa, 15, 2)
                 /\ IsQuotient(r.ctr, 50, 1000)

\* the two records of campaign C1 have gone through run() up to the tiers
C12_Witness ==
    /\ TiersAssigned
    /\ csv.rows = TwoRecordCampaign
    /\ Len(results["campaign_metrics"]) = 1
    /\ results["campaign_metrics"][1].spent = 15
    /\ results["campaign_metrics"][1].roas = <<40, 3>>
    /\ results["campaign_metrics"][1].performance_tier = "Highly Profitable"

-----------------------------------------------------------------------------
(* Fallback label of the cleaner                                           *)

\* clean_categorical_data, the last of the four steps, has run
Cleaned == script = "clean" /\ pc \in {"categorical", "derived", "done"}

\* the raw record that row k of self.df was read from
Raw(k) == csv.rows[df.index[k] + 1]

(* C13: after handle_missing_values, validate_numeric_columns,             *)
(* remove_duplicates and clean_categorical_data every record whose raw     *)
(* gender was missing has gender "Unknown", every record whose raw age was *)
(* missing has age "Unknown", and gender + "_" + age of every record is a  *)
(* string, not a missing value.                                            *)

C13_MissingBecomesUnknown ==
    Cleaned =>
        \A k \in 1..Len(df.rows) :
            /\ ("gender" \in df.columns /\ Raw(k).gender = NA)
                  => df.rows[k].gender = "Unknown"
            /\ ("age" \in df.columns /\ Raw(k).age = NA)
                  => df.rows[k].age = "Unknown"
            /\ CategoricalCols \subseteq df.columns
                  => StrAdd(StrAdd(df.rows[k].gender, "_"), df.rows[k].age)
                        # NA

-----------------------------------------------------------------------------
(* Conservation across the grouping dimensions                             *)

\* every record of self.df has a key in column col
AllKeyed(col) == \A i \in 1..Len(df.rows) : df.rows[i][col] # NA

(* C14: for each of the six grouping dimensions in which every record of   *)
(* the input has a non-missing key, the rows of that dimension's table sum *)
(* to the totals of calculate_overall_roi on the same table: spent to      *)
(* total_spend, approved_conversion to the total approved conversions, and *)
(* revenue to total_revenue.                                               *)

C14_GroupSumsEqualOverallTotals ==
    (script = "roi" /\ "overall_metrics" \in DOMAIN results) =>
        \A t \in AggregateTables :
            AllKeyed(t.col) =>
                /\ ColSum(t.table, "spent")
                      = results["overall_metrics"].total_spend
                /\ ColSum(t.table, "approved_conversion")
                      = ColSum(df.rows, "approved_conversion")
                /\ ColSum(t.table, "approved_conversion") * conversion_value
                      = results["overall_metrics"].total_revenue
                /\ ColSum(t.table, "revenue")
                      = results["overall_metrics"].total_revenue

\* seven keyed records of one campaign, one per weekday: seven rows in the
\* day_of_week table, one in the campaign table, the same totals in both
C14_Witness ==
    /\ RoiAt({"time"})
    /\ Len(df.rows) = 7
    /\ \A t \in AggregateTables : AllKeyed(t.col)
    /\ Cardinality(AggregateTables) = 6
    /\ Len(results["time_metrics"].day_of_week) = 7
    /\ Len(results["campaign_metrics"]) = 1
    /\ results["campaign_metrics"][1].spent = 350
    /\ results["overall_metrics"].total_spend = 350
    /\ results["overall_metrics"].total_revenue = 700

====
